---- MODULE Spec2Model ----
(***************************************************************************)
(* A model of sphinxcontrib.plantuml (src/sphinxcontrib/plantuml.py): the  *)
(* content-addressed rendering of diagram blocks, the per-builder visitors *)
(* and the optional FTP transport.                                         *)
(*                                                                         *)
(* One Sphinx process runs builds one after the other.  A build visits     *)
(* plantuml nodes one at a time (single-threaded); each visit is one       *)
(* action that runs the whole visitor, the calls to render_plantuml and    *)
(* the tag functions included.  What the outside world answers (does the   *)
(* subprocess launch, its exit status, its stderr, does the FTP server     *)
(* accept) is an input of the action, drawn from a small set.              *)
(***************************************************************************)
EXTENDS Integers, Sequences, FiniteSets, TLC

VARIABLES
    config,      \* the build's configuration (app.config) and its builder
    phase,       \* "building" | "finished" | "crashed": position of the build
    builds,      \* number of builds started in this process
    visits,      \* number of node visits made in the current build
    files,       \* the output directory: path -> file content
    invoked,     \* path -> number of renderer runs requested for that path
    PLANTUML_FTP_SERVER,   \* the process-wide transport handle, or None
    remote,      \* the files the FTP server holds
    last,        \* what the last visit did: its calls, warnings and markup
    pure         \* input and result of the last pure-function application

vars == <<config, phase, builds, visits, files, invoked, PLANTUML_FTP_SERVER,
          remote, last, pure>>

-----------------------------------------------------------------------------
(* Bounds of the model *)

MaxVisits == 2      \* node visits per build
MaxBuilds == 2      \* builds per process
MaxRefusals == 6    \* refused connection attempts the server may answer
MaxLen == 2         \* length of the source texts hashed by generate_name
MaxDirLen == 1      \* length of the include directories hashed by generate_name
MaxAttrs == 2       \* attributes of a tag of a vector file

(* Program constants *)

connection_try_max == 5
DefaultScale == 100

-----------------------------------------------------------------------------
(* Text.  A str is a sequence of code points, bytes a sequence of 0..255. *)

NUL == 0

\* str.encode('utf-8'), for code points below 0x800
EncodeChar(c) ==
    IF c < 128 THEN <<c>>
    ELSE <<192 + (c \div 64), 128 + (c % 64)>>

RECURSIVE encode_utf8(_)
encode_utf8(s) ==
    IF s = <<>> THEN <<>>
    ELSE EncodeChar(Head(s)) \o encode_utf8(Tail(s))

\* bytes.decode('utf-8'): the text, or a UnicodeDecodeError
DecodeError == <<-1>>

RECURSIVE decode_utf8(_)
decode_utf8(b) ==
    IF b = <<>> THEN <<>>
    ELSE IF Head(b) < 128
         THEN LET rest == decode_utf8(Tail(b))
              IN IF rest = DecodeError THEN DecodeError ELSE <<Head(b)>> \o rest
    ELSE IF /\ Head(b) >= 194 /\ Head(b) < 224 /\ Len(b) >= 2
            /\ b[2] >= 128 /\ b[2] < 192
         THEN LET rest == decode_utf8(Tail(Tail(b)))
              IN IF rest = DecodeError THEN DecodeError
                 ELSE <<(Head(b) - 192) * 64 + (b[2] - 128)>> \o rest
    ELSE DecodeError

\* all sequences over alphabet A of length at most n
RECURSIVE SeqsUpTo(_, _)
SeqsUpTo(A, n) ==
    IF n = 0 THEN {<<>>}
    ELSE LET shorter == SeqsUpTo(A, n - 1)
         IN shorter \cup {Append(s, a) : s \in shorter, a \in A}

Range(s) == {s[i] : i \in 1..Len(s)}

None == "None"

-----------------------------------------------------------------------------
(* Diagram nodes: what UmlDirective.run leaves on a plantuml node. *)

\* node.get(k, default)
Get(node, k, default) == IF k \in DOMAIN node THEN node[k] ELSE default

Has(node, k) == k \in DOMAIN node

mknode(incdir, uml) == [incdir |-> incdir, uml |-> uml, filename |-> "index.rst"]

\* The blocks of the documents built: the second differs from the first in
\* its presentation options only, the third in its source text and include
\* directory.
Nodes ==
    { mknode(<<>>, <<72, 105>>),
      mknode(<<>>, <<72, 105>>)
          @@ [alt |-> <<70, 60, 111>>,              \* :alt: F<o
              scale |-> 20,                         \* :scale: 20%
              width |-> <<53, 48, 109, 109>>],      \* :width: 50mm
      mknode(<<100>>, <<66>>) @@ [html_format |-> "svg_obj", latex_format |-> "eps"] }

-----------------------------------------------------------------------------
(* Builders.  Only the HTML family has an imgpath. *)

OutDir == "out"

ImgPath(builder) == IF builder \in {"html", "confluence"} THEN "_images" ELSE None

\* hashlib.sha1: taken as injective on the bytes fed to it
sha1_hexdigest(bytes) == bytes

\* generate_name without the NUL fed to the digest between the two parts
generate_name_nosep(builder, node, fileformat) ==
    LET key == sha1_hexdigest(encode_utf8(node.incdir) \o encode_utf8(node.uml))
        fname == [prefix |-> "plantuml-", key |-> key, ext |-> fileformat]
    IN IF ImgPath(builder) # None
       THEN <<[dir |-> <<ImgPath(builder)>>, name |-> fname],
              [dir |-> <<OutDir, "_images">>, name |-> fname]>>
       ELSE <<[dir |-> <<>>, name |-> fname],
              [dir |-> <<OutDir>>, name |-> fname]>>

\* generate_name(self, node, fileformat) -> (refname, outfname)
generate_name(builder, node, fileformat) ==
    LET key == sha1_hexdigest(encode_utf8(node.incdir) \o <<NUL>>
                              \o encode_utf8(node.uml))
        fname == [prefix |-> "plantuml-", key |-> key, ext |-> fileformat]
    IN IF ImgPath(builder) # None
       THEN <<[dir |-> <<ImgPath(builder)>>, name |-> fname],
              [dir |-> <<OutDir, "_images">>, name |-> fname]>>
       ELSE <<[dir |-> <<>>, name |-> fname],
              [dir |-> <<OutDir>>, name |-> fname]>>

-----------------------------------------------------------------------------
(* Exceptions and messages.  A message keeps the parts the format string   *)
(* puts together: its fixed text, the list it names and the value it       *)
(* quotes.                                                                 *)

NoMsg == [label |-> "", list |-> <<>>, value |-> ""]
NoExc == [type |-> "none", msg |-> NoMsg]

PlantUmlError(msg) == [type |-> "PlantUmlError", msg |-> msg]
OtherError(type) == [type |-> type, msg |-> NoMsg]

\* a launch failure reported under the label of a failed run
CannotBeRunMsg_confused(cmd) ==
    [label |-> "error while running plantuml", list |-> <<>>, value |-> cmd]

\* 'plantuml command %r cannot be run' % self.builder.config.plantuml
CannotBeRunMsg(cmd) ==
    [label |-> "plantuml command %r cannot be run", list |-> <<>>, value |-> cmd]

\* the error of a failed run without the captured stderr
RunningMsg_nostderr(serr) ==
    [label |-> "error while running plantuml", list |-> <<>>, value |-> ""]

\* 'error while running plantuml\n\n%s' % serr
RunningMsg(serr) ==
    [label |-> "error while running plantuml", list |-> <<>>, value |-> serr]

NoRet == <<>>

-----------------------------------------------------------------------------
(* What the outside world answers to one render call.                      *)
(*   launch      subprocess.Popen of the renderer: "ok", or the errno      *)
(*   returncode  the renderer's exit status                                *)
(*   serr        the renderer's captured stderr                            *)
(*   spawn       subprocess.Popen of the FTP server: "ok", or the errno    *)
(*   refusals    connection attempts the FTP server refuses before it      *)
(*               accepts one                                               *)
(*   gen         the store/retrieve/delete exchange: "ok", or the first    *)
(*               command the server answers with a permanent error         *)
(*   sout        the renderer's captured stdout (text kind), as bytes      *)

Stderrs == {"syntax error", "no such file"}

DefaultEnv ==
    [launch |-> "ok", returncode |-> 0, serr |-> "", spawn |-> "ok",
     refusals |-> 0, gen |-> "ok", sout |-> <<72, 105>>]

ProcEnvs ==
    {[DefaultEnv EXCEPT !.launch = l] : l \in {"ok", "ENOENT", "EACCES"}}
    \cup {[DefaultEnv EXCEPT !.returncode = 1, !.serr = s] : s \in Stderrs}

FtpEnvs ==
    {[DefaultEnv EXCEPT !.spawn = sp, !.refusals = r, !.gen = g] :
        sp \in {"ok", "ENOENT"}, r \in 0..MaxRefusals, g \in {"ok", "STOR", "RETR", "DELE"}}

RenderEnvs == ProcEnvs \cup FtpEnvs

\* stdout of the text kind: ASCII, a two-byte character, and bytes that are
\* not UTF-8
InlineEnvs ==
    ProcEnvs \cup {[DefaultEnv EXCEPT !.sout = b] : b \in {<<195, 169>>, <<255>>}}

\* An answer nobody asked for is left at its default, so that one behaviour
\* of the program is one transition of the model.
Canonical(env, consumed) ==
    \A k \in DOMAIN DefaultEnv : k \notin consumed => env[k] = DefaultEnv[k]

-----------------------------------------------------------------------------
(* The output directory *)

exists(fs, path) == path \in DOMAIN fs

Writes(fs, path) == IF exists(fs, path) THEN fs[path].writes ELSE 0

\* open(path, 'wb'): creates or truncates
open_wb(fs, path) ==
    [p \in DOMAIN fs \cup {path} |->
        IF p = path
        THEN [data |-> "empty", by |-> "open", writes |-> Writes(fs, path) + 1]
        ELSE fs[p]]

\* a process or a transfer writing through the open handle
write(fs, path, data, by) ==
    [fs EXCEPT ![path] = [@ EXCEPT !.data = data, !.by = by]]

Count(inv, path) == IF path \in DOMAIN inv THEN inv[path] ELSE 0

Bump(inv, path) ==
    [p \in DOMAIN inv \cup {path} |-> IF p = path THEN Count(inv, path) + 1 ELSE inv[p]]

-----------------------------------------------------------------------------
(* Command lines *)

ARGS_BY_FILEFORMAT(fileformat) ==
    CASE fileformat = "eps" -> <<"-teps">>
      [] fileformat = "png" -> <<>>
      [] fileformat = "svg" -> <<"-tsvg">>
      [] fileformat = "txt" -> <<"-ttxt">>

generate_plantuml_args(cfg, node, fileformat) ==
    <<cfg.plantuml, "-pipe", "-charset", "utf-8", "-filename", node.filename>>
        \o ARGS_BY_FILEFORMAT(fileformat)

-----------------------------------------------------------------------------
(* class PlantumlFtp *)

NoHandle == <<>>

PlantumlFtp ==
    [is_connected |-> FALSE, connection_try |-> 0,
     connection_try_max |-> connection_try_max, server_process |-> None]

\* connect trying again for as long as it is refused
RECURSIVE connect_unbounded(_, _)
connect_unbounded(h, refusals) ==
    IF ~h.is_connected
    THEN LET h1 == [h EXCEPT !.connection_try = @ + 1]
         IN IF h1.connection_try > refusals
            THEN connect_unbounded([h1 EXCEPT !.is_connected = TRUE], refusals)
            ELSE connect_unbounded(h1, refusals)
    ELSE h

\* PlantumlFtp.connect: the i-th attempt is refused while i <= refusals
RECURSIVE connect(_, _)
connect(h, refusals) ==
    IF ~h.is_connected /\ h.connection_try < h.connection_try_max
    THEN LET h1 == [h EXCEPT !.connection_try = @ + 1]
         IN IF h1.connection_try > refusals
            THEN connect([h1 EXCEPT !.is_connected = TRUE], refusals)
            ELSE connect(h1, refusals)
    ELSE h

\* PlantumlFtp.start_server, after a successful Popen
start_server(h) == [h EXCEPT !.server_process = "running"]

\* PlantumlFtp.generate on a handle whose FTP() never connected: ftplib
\* writes to a socket that is None
generate_exc(h, gen) ==
    IF ~h.is_connected THEN OtherError("AttributeError")
    ELSE IF gen = "ok" THEN NoExc
    ELSE OtherError("ftplib.error_perm")

\* Path(output_file.name).stem and the names generate gives the server
Upload(name) == [stem |-> [prefix |-> name.prefix, key |-> name.key], ext |-> "txt"]

Download(name) == [stem |-> [prefix |-> name.prefix, key |-> name.key], ext |-> name.ext]

STOR(name) == [cmd |-> "STOR", arg |-> <<Upload(name)>>]

RETR(name) == [cmd |-> "RETR", arg |-> <<Download(name)>>]

DELE == [cmd |-> "DELE", arg |-> <<"*.*">>]

\* PlantumlFtp.generate(input, output_file) against a server holding rem:
\* the commands sent, the server's files afterwards, and whether the
\* retrieved bytes were written to output_file.  The server renders the
\* upload when it is stored.
generate(h, rem, name, gen) ==
    [exc |-> generate_exc(h, gen),
     cmds |-> IF ~h.is_connected THEN <<>>
              ELSE IF gen = "STOR" THEN <<STOR(name)>>
              ELSE IF gen = "RETR" THEN <<STOR(name), RETR(name)>>
              ELSE <<STOR(name), RETR(name), DELE>>,
     remote |-> IF ~h.is_connected \/ gen = "STOR" THEN rem
                ELSE IF gen = "RETR" THEN rem \cup {Upload(name)}
                ELSE IF gen = "DELE" THEN rem \cup {Upload(name), Download(name)}
                ELSE {},
     wrote |-> h.is_connected /\ gen \in {"ok", "DELE"}]

-----------------------------------------------------------------------------
(* The world a visit acts on, and the record of one render call.           *)
(*   files, invoked, ftp, remote   as the variables of the same name       *)
(*   warnings              messages passed to _warn, in order              *)
(*   popens                argument lists given to subprocess.Popen        *)
(*   cmds                  commands sent to the FTP server                 *)

World(fs, inv, ftp, rem) ==
    [files |-> fs, invoked |-> inv, ftp |-> ftp, remote |-> rem,
     warnings |-> <<>>, popens |-> <<>>, cmds |-> <<>>]

Call(w0, w1, fileformat, names, ret, exc, consumed, env) ==
    [fileformat |-> fileformat,
     env |-> env,
     outfname |-> names[2],
     existed |-> exists(w0.files, names[2]),
     before |-> IF exists(w0.files, names[2]) THEN <<w0.files[names[2]]>> ELSE <<>>,
     after |-> IF exists(w1.files, names[2]) THEN <<w1.files[names[2]]>> ELSE <<>>,
     popens |-> Len(w1.popens) - Len(w0.popens),
     ftp_before |-> w0.ftp,
     ftp_after |-> w1.ftp,
     cmds |-> SubSeq(w1.cmds, Len(w0.cmds) + 1, Len(w1.cmds)),
     remote_after |-> w1.remote,
     ftp_used |-> "gen" \in consumed \/ "refusals" \in consumed \/ "spawn" \in consumed
                  \/ (exc.type = "AttributeError"),
     warned |-> SubSeq(w1.warnings, Len(w0.warnings) + 1, Len(w1.warnings)),
     ret |-> ret,
     exc |-> exc,
     consumed |-> consumed]

Result(w0, w1, fileformat, names, ret, exc, consumed, env) ==
    [w |-> w1, ret |-> ret, exc |-> exc,
     call |-> Call(w0, w1, fileformat, names, ret, exc, consumed, env)]

\* the FTP branch of render_plantuml (lines 286-301), the file being open
render_ftp(w0, w, cfg, node, fileformat, names, env) ==
    LET fresh == w.ftp = NoHandle
        spawning == fresh /\ cfg.plantuml_spawn_ftp_server
        spawn_failed == spawning /\ env.spawn # "ok"
        h0 == IF fresh THEN PlantumlFtp ELSE w.ftp[1]
        h1 == IF spawning /\ ~spawn_failed THEN start_server(h0) ELSE h0
        h2 == IF fresh /\ ~spawn_failed THEN connect(h1, env.refusals) ELSE h1
        popens1 == IF spawning
                   THEN Append(w.popens,
                               Append(generate_plantuml_args(cfg, node, fileformat), "-ftp"))
                   ELSE w.popens
        g == generate(h2, IF spawning THEN {} ELSE w.remote, names[2].name, env.gen)
        consumed == (IF spawning THEN {"spawn"} ELSE {})
                    \cup (IF fresh /\ ~spawn_failed THEN {"refusals"} ELSE {})
                    \cup (IF ~spawn_failed /\ h2.is_connected THEN {"gen"} ELSE {})
    IN IF spawn_failed
       THEN Result(w0, [w EXCEPT !.ftp = <<h0>>, !.popens = popens1],
                   fileformat, names, NoRet, OtherError("FileNotFoundError"), consumed, env)
       ELSE LET w1 == [w EXCEPT !.ftp = <<h2>>, !.popens = popens1,
                                !.invoked = Bump(w.invoked, names[2]),
                                !.cmds = @ \o g.cmds, !.remote = g.remote,
                                !.files = IF g.wrote
                                          THEN write(@, names[2], "rendered", "ftp")
                                          ELSE @]
            IN IF g.exc = NoExc
               THEN Result(w0, w1, fileformat, names, names, NoExc, consumed, env)
               ELSE Result(w0, w1, fileformat, names, NoRet, g.exc, consumed, env)

\* a non-zero exit status that raises whatever the configuration says
nonzero_exit_raise(cfg, serr) ==
    [warn |-> <<>>, exc |-> PlantUmlError(RunningMsg(serr))]

\* a non-zero exit status (lines 316-320): a warning, or the error raised
nonzero_exit(cfg, serr) ==
    IF cfg.plantuml_syntax_error_image
    THEN [warn |-> <<RunningMsg(serr)>>, exc |-> NoExc]
    ELSE [warn |-> <<>>, exc |-> PlantUmlError(RunningMsg(serr))]

\* the subprocess branch of render_plantuml (lines 303-321), the file being open
render_proc(w0, w, cfg, node, fileformat, names, env) ==
    LET w1 == [w EXCEPT !.invoked = Bump(w.invoked, names[2]),
                        !.popens = Append(w.popens,
                                          generate_plantuml_args(cfg, node, fileformat))]
        all == {"launch", "returncode", "serr"}
    IN IF env.launch = "ENOENT"
       THEN Result(w0, w1, fileformat, names, NoRet,
                   PlantUmlError(CannotBeRunMsg(cfg.plantuml)), {"launch"}, env)
       ELSE IF env.launch # "ok"
       THEN Result(w0, w1, fileformat, names, NoRet, OtherError("OSError"), {"launch"}, env)
       ELSE IF env.returncode # 0
       THEN LET how == nonzero_exit(cfg, env.serr)
                w2 == [w1 EXCEPT !.files = write(w1.files, names[2], "partial", "plantuml"),
                                 !.warnings = @ \o how.warn]
            IN Result(w0, w2, fileformat, names,
                      IF how.exc = NoExc THEN names ELSE NoRet, how.exc, all, env)
       ELSE Result(w0, [w1 EXCEPT !.files = write(w1.files, names[2], "rendered", "plantuml")],
                   fileformat, names, names, NoExc, all, env)

\* render_plantuml without its early return
render_plantuml_regenerate(w, cfg, node, fileformat, env) ==
    LET names == generate_name(cfg.builder, node, fileformat)
        opened == [w EXCEPT !.files = open_wb(w.files, names[2])]
    IN IF cfg.plantuml_use_ftp_mode
       THEN render_ftp(w, opened, cfg, node, fileformat, names, env)
       ELSE render_proc(w, opened, cfg, node, fileformat, names, env)

\* render_plantuml(self, node, fileformat)
render_plantuml(w, cfg, node, fileformat, env) ==
    LET names == generate_name(cfg.builder, node, fileformat)
    IN IF exists(w.files, names[2])
       THEN Result(w, w, fileformat, names, names, NoExc, {}, env)   \* don't regenerate
       ELSE LET opened == [w EXCEPT !.files = open_wb(w.files, names[2])]
            IN IF cfg.plantuml_use_ftp_mode
               THEN render_ftp(w, opened, cfg, node, fileformat, names, env)
               ELSE render_proc(w, opened, cfg, node, fileformat, names, env)

-----------------------------------------------------------------------------
(* Regular expressions and number formatting of _get_png_tag *)

Digits == 48..57                                   \* \d
Spaces == {9, 10, 11, 12, 13, 32}                  \* \s
UnitChars == (65..90) \cup (97..122) \cup {37}     \* [a-zA-Z%]

\* length of the longest prefix of s made of characters of S
RECURSIVE PrefixLen(_, _)
PrefixLen(s, S) ==
    IF s # <<>> /\ Head(s) \in S THEN 1 + PrefixLen(Tail(s), S) ELSE 0

Drop(s, n) == SubSeq(s, n + 1, Len(s))

NoMatch == [matched |-> FALSE, value |-> <<>>, units |-> <<>>]

\* re.compile(r"(?P<value>\d+)\s*(?P<units>[a-zA-Z%]+)?").match(s);
\* an empty units stands for a group that did not take part (None)
vu_match(s) ==
    LET nd == PrefixLen(s, Digits)
        r1 == Drop(s, nd)
        r2 == Drop(r1, PrefixLen(r1, Spaces))
    IN IF nd = 0 THEN NoMatch
       ELSE [matched |-> TRUE, value |-> SubSeq(s, 1, nd),
             units |-> SubSeq(r2, 1, PrefixLen(r2, UnitChars))]

\* int() of a string of digits
RECURSIVE int(_)
int(ds) ==
    IF ds = <<>> THEN 0
    ELSE 10 * int(SubSeq(ds, 1, Len(ds) - 1)) + (ds[Len(ds)] - 48)

\* str() of a natural number
RECURSIVE str_int(_)
str_int(n) ==
    IF n < 10 THEN <<48 + n>> ELSE Append(str_int(n \div 10), 48 + (n % 10))

\* '%s' % (n / 100): Python 3 true division gives a float, printed with
\* its shortest decimal form and at least one fractional digit
str_float_div100(n) ==
    LET frac == n % 100
    IN str_int(n \div 100) \o <<46>>
        \o (IF frac % 10 = 0 THEN <<48 + (frac \div 10)>>
            ELSE <<48 + (frac \div 10), 48 + (frac % 10)>>)

PX == <<112, 120>>

\* self.encode: HTML escaping of & < > "
RECURSIVE encode(_)
encode(s) ==
    IF s = <<>> THEN <<>>
    ELSE (CASE Head(s) = 38 -> <<38, 97, 109, 112, 59>>
            [] Head(s) = 60 -> <<38, 108, 116, 59>>
            [] Head(s) = 62 -> <<38, 103, 116, 59>>
            [] Head(s) = 34 -> <<38, 113, 117, 111, 116, 59>>
            [] OTHER -> <<Head(s)>>) \o encode(Tail(s))

-----------------------------------------------------------------------------
(* What the outside world answers to a tag function.                       *)
(*   pil     is PIL importable (Image is not None)                         *)
(*   probe   Image.open/load of the rendered file: "ok" or "IOError"       *)
(*   size    im.size                                                       *)
(*   style   the style attribute of the <svg> tag in the rendered file,    *)
(*           empty when the file has none                                  *)

SvgStyle == <<119, 58, 49, 112, 120, 59>>           \* w:1px;

DefaultTagEnv == [pil |-> TRUE, probe |-> "ok", size |-> <<115, 147>>, style |-> <<>>]

TagEnvs ==
    {[DefaultTagEnv EXCEPT !.pil = p, !.probe = pr, !.style = st] :
        p \in BOOLEAN, pr \in {"ok", "IOError"}, st \in {<<>>, SvgStyle}}

TagCanonical(tenv, consumed) ==
    \A k \in DOMAIN DefaultTagEnv : k \notin consumed => tenv[k] = DefaultTagEnv[k]

Markup(tag, ref, alt, styles, link, ostyle, inner) ==
    [tag |-> tag, ref |-> ref, alt |-> alt, styles |-> styles, link |-> link,
     style |-> ostyle, inner |-> inner]

InvalidMsg(a) == [label |-> "Invalid %s", list |-> <<>>, value |-> a]
UnsupportedScalingMsg(attrs) ==
    [label |-> "plantuml: unsupported scaling attributes: %s (install PIL or Pillow)",
     list |-> attrs, value |-> ""]
ImageSizeMsg == [label |-> "plantuml: failed to get image size: %s", list |-> <<>>,
                 value |-> "IOError"]

TagResult(warnings, markup, exc, consumed) ==
    [warnings |-> warnings, markup |-> markup, exc |-> exc, consumed |-> consumed]

\* the style of one declared dimension (lines 366-374)
DimStyle(node, a, scale) ==
    LET m == vu_match(node[a])
    IN [axis |-> a,
        value |-> str_float_div100(int(m.value) * scale),
        unit |-> IF m.units # <<>> THEN m.units ELSE PX]

\* _get_png_tag(self, fnames, node)
get_png_tag(names, node, tenv) ==
    LET refname == names[1]
        alt == Get(node, "alt", node.uml)
        InNode(k) == Has(node, k)
        scale_attrs == SelectSeq(<<"scale", "width", "height">>, InNode)
        warn1 == IF scale_attrs # <<>> /\ ~tenv.pil
                 THEN <<UnsupportedScalingMsg(scale_attrs)>> ELSE <<>>
        scale == Get(node, "scale", DefaultScale)
        declared == SelectSeq(<<"width", "height">>, InNode)
        Bad(a) == ~vu_match(node[a]).matched
        bad == SelectSeq(declared, Bad)
        styles == [i \in 1..Len(declared) |-> DimStyle(node, declared[i], scale)]
        probed == [i \in 1..2 |->
                     [axis |-> <<"width", "height">>[i],
                      value |-> str_float_div100(tenv.size[i] * scale),
                      unit |-> PX]]
    IN IF scale_attrs = <<>>
       THEN TagResult(<<>>, <<Markup("img", refname, encode(alt), <<>>, FALSE, <<>>, <<>>)>>,
                      NoExc, {})
       ELSE IF ~tenv.pil
       THEN TagResult(warn1, <<Markup("img", refname, encode(alt), <<>>, FALSE, <<>>, <<>>)>>,
                      NoExc, {"pil"})
       ELSE IF bad # <<>>
       THEN TagResult(<<>>, <<>>, PlantUmlError(InvalidMsg(bad[1])), {"pil"})
       ELSE IF styles # <<>>
       THEN TagResult(<<>>, <<Markup("img", refname, encode(alt), styles, TRUE, <<>>, <<>>)>>,
                      NoExc, {"pil"})
       ELSE IF tenv.probe = "ok"
       THEN TagResult(<<>>, <<Markup("img", refname, encode(alt), probed, TRUE, <<>>, <<>>)>>,
                      NoExc, {"pil", "probe"})
       ELSE TagResult(<<ImageSizeMsg>>,
                      <<Markup("img", refname, encode(alt), <<>>, TRUE, <<>>, <<>>)>>,
                      NoExc, {"pil", "probe"})

(* The regular expressions of _get_svg_style, over the characters of a    *)
(* line.  A line read from the file ends with its newline.                *)

WordChars == (48..57) \cup (65..90) \cup (97..122) \cup {95}     \* \w
Angles == {60, 62}                                              \* < >
Quotes == {34, 39}                                              \* " '
SvgOpen == <<60, 115, 118, 103>>                                \* <svg
StyleEq == <<115, 116, 121, 108, 101, 61>>                      \* style=

StartsAt(s, i, p) == i + Len(p) - 1 <= Len(s) /\ SubSeq(s, i, i + Len(p) - 1) = p

Least(P) == CHOOSE i \in P : \A j \in P : i <= j

\* the longest run, from position i of s, of characters that are not in S
RunFrom(s, i, S) ==
    LET stops == {j \in i..Len(s) : s[j] \in S}
    IN SubSeq(s, i, IF stops = {} THEN Len(s) ELSE Least(stops) - 1)

\* re.search(r'<svg\b([^<>]+)', l): group 1 of the leftmost match, empty
\* when there is no match (the group of a match has a character at least)
svg_search(l) ==
    LET at == {i \in 1..Len(l) : /\ StartsAt(l, i, SvgOpen)
                                 /\ i + Len(SvgOpen) <= Len(l)
                                 /\ l[i + Len(SvgOpen)] \notin WordChars \cup Angles}
    IN IF at = {} THEN <<>> ELSE RunFrom(l, Least(at) + Len(SvgOpen), Angles)

\* re.search(r'\bstyle=[\'"]([^\'"]+)', attrs): group 1 of the leftmost
\* match, empty when there is no match
style_search(attrs) ==
    LET at == {i \in 1..Len(attrs) :
                 /\ StartsAt(attrs, i, StyleEq)
                 /\ (i = 1 \/ attrs[i - 1] \notin WordChars)
                 /\ i + Len(StyleEq) + 1 <= Len(attrs)
                 /\ attrs[i + Len(StyleEq)] \in Quotes
                 /\ attrs[i + Len(StyleEq) + 1] \notin Quotes}
    IN IF at = {} THEN <<>> ELSE RunFrom(attrs, Least(at) + Len(StyleEq) + 1, Quotes)

\* _get_svg_style(fname) on the lines of the file: the attributes of the
\* first line that matches are searched for the style; an empty result
\* stands for None
svg_style_of_lines(lines) ==
    LET hits == {k \in 1..Len(lines) : svg_search(lines[k]) # <<>>}
    IN IF hits = {} THEN <<>> ELSE style_search(svg_search(lines[Least(hits)]))

\* the lines of a text as iterating over the file gives them
RECURSIVE readlines(_)
readlines(text) ==
    IF text = <<>> THEN <<>>
    ELSE LET n == Len(RunFrom(text, 1, {10}))
             m == IF n < Len(text) THEN n + 1 ELSE n
         IN <<SubSeq(text, 1, m)>> \o readlines(Drop(text, m))

\* _get_svg_style(fname): the style of the first <svg> tag of the file, an
\* empty result standing for None.  An empty file has no <svg> tag.
get_svg_style(fs, outfname, tenv) ==
    IF fs[outfname].data = "empty" THEN <<>> ELSE tenv.style

svg_style_consumed(fs, outfname) ==
    IF fs[outfname].data = "empty" THEN {} ELSE {"style"}

\* _get_svg_tag(self, fnames, node)
get_svg_tag(fs, names_png, names_svg, node, tenv) ==
    LET png == get_png_tag(names_png, node, tenv)
        ostyle == get_svg_style(fs, names_svg[2], tenv)
        consumed == png.consumed \cup svg_style_consumed(fs, names_svg[2])
    IN IF png.exc # NoExc
       THEN TagResult(png.warnings, <<>>, png.exc, consumed)
       ELSE TagResult(png.warnings,
                      <<Markup("object", names_svg[1], <<>>, <<>>, FALSE, ostyle, png.markup)>>,
                      NoExc, consumed)

\* _get_svg_img_tag(self, fnames, node)
get_svg_img_tag(names_svg, node) ==
    TagResult(<<>>,
              <<Markup("img", names_svg[1], encode(Get(node, "alt", node.uml)), <<>>, FALSE,
                       <<>>, <<>>)>>,
              NoExc, {})

\* _get_svg_obj_tag(self, fnames, node)
get_svg_obj_tag(fs, names_svg, tenv) ==
    TagResult(<<>>,
              <<Markup("object", names_svg[1], <<>>, <<>>, FALSE,
                       get_svg_style(fs, names_svg[2], tenv), <<>>)>>,
              NoExc, svg_style_consumed(fs, names_svg[2]))

\* the keys of _KNOWN_HTML_FORMATS, in the order of the dict
KNOWN_HTML_FORMATS == <<"png", "svg", "svg_img", "svg_obj">>

\* the file kinds of _KNOWN_HTML_FORMATS[fmt]
html_fileformats(fmt) ==
    CASE fmt = "png" -> <<"png">>
      [] fmt = "svg" -> <<"png", "svg">>
      [] fmt = "svg_img" -> <<"svg">>
      [] fmt = "svg_obj" -> <<"svg">>

\* the tag function of _KNOWN_HTML_FORMATS[fmt], applied
gettag(fmt, fs, builder, node, tenv) ==
    LET png == generate_name(builder, node, "png")
        svg == generate_name(builder, node, "svg")
    IN CASE fmt = "png" -> get_png_tag(png, node, tenv)
         [] fmt = "svg" -> get_svg_tag(fs, png, svg, node, tenv)
         [] fmt = "svg_img" -> get_svg_img_tag(svg, node)
         [] fmt = "svg_obj" -> get_svg_obj_tag(fs, svg, tenv)

\* '... must be one of %s, but is %r' % (', '.join(map(repr, known)), fmt)
FormatMsg(option, known, fmt) ==
    [label |-> option, list |-> known, value |-> fmt]

-----------------------------------------------------------------------------
(* Rendering the file kinds of one node, in order, until one raises *)

RECURSIVE render_all(_, _, _, _, _)

\* the calls so far, then those of the remaining file kinds
render_more(call, rest) == [rest EXCEPT !.calls = <<call>> \o @]

\* r is the result of rendering one file kind: its exception ends the
\* generator expression, else the remaining file kinds are rendered
render_rest(r, cfg, node, fileformats, envs) ==
    IF r.exc # NoExc
    THEN [w |-> r.w, calls |-> <<r.call>>, exc |-> r.exc]
    ELSE render_more(r.call, render_all(r.w, cfg, node, fileformats, envs))

\* dict((e, render_plantuml(self, node, e)) for e in fileformats)
render_all(w, cfg, node, fileformats, envs) ==
    IF fileformats = <<>> THEN [w |-> w, calls |-> <<>>, exc |-> NoExc]
    ELSE render_rest(render_plantuml(w, cfg, node, Head(fileformats), Head(envs)),
                     cfg, node, Tail(fileformats), Tail(envs))

EnvsCanonical(envs, calls) ==
    \A i \in 1..Len(envs) :
        IF i <= Len(calls) THEN Canonical(envs[i], calls[i].consumed)
        ELSE envs[i] = DefaultEnv

-----------------------------------------------------------------------------
(* The visitors.  A visit ends in one of:                                  *)
(*   "embedded"  the node's markup or image node was emitted               *)
(*   "skipped"   nodes.SkipNode was raised with nothing emitted            *)
(*   "raised"    another exception left the visitor: the build fails       *)

Visit(w, visitor, node, fmt, outcome, exc, calls, body, tagconsumed) ==
    [w |-> w, visitor |-> visitor, node |-> node, fmt |-> fmt, outcome |-> outcome,
     exc |-> exc, calls |-> calls, body |-> body, tagconsumed |-> tagconsumed,
     conv |-> <<>>, inline |-> <<>>]

warn(w, msg) == [w EXCEPT !.warnings = Append(@, msg)]

\* the end of the with statement (lines 462-466), r being what its body
\* did: PlantUmlError is warned of and the node skipped, any other
\* exception leaves the visitor
html_rendered(r) ==
    IF r.exc.type = "PlantUmlError"
    THEN [w |-> warn(r.w, r.exc.msg), outcome |-> "skipped", exc |-> NoExc,
          calls |-> r.calls]
    ELSE IF r.exc # NoExc
    THEN [w |-> r.w, outcome |-> "raised", exc |-> r.exc, calls |-> r.calls]
    ELSE [w |-> r.w, outcome |-> "ok", exc |-> NoExc, calls |-> r.calls]

\* the try statement of _prepare_html_render (lines 454-466) with the body
\* of its with statement, the rendering of the file kinds
html_lookup_and_render(w, cfg, node, fmt, envs) ==
    IF fmt \notin Range(KNOWN_HTML_FORMATS)
    THEN [w |-> warn(w, FormatMsg("plantuml_output_format", KNOWN_HTML_FORMATS, fmt)),
          outcome |-> "skipped", exc |-> NoExc, calls |-> <<>>]
    ELSE html_rendered(render_all(w, cfg, node, html_fileformats(fmt), envs))

\* _prepare_html_render without the test for 'none'
prepare_html_render_nonone(w, cfg, node, fmt, envs) ==
    html_lookup_and_render(w, cfg, node, fmt, envs)

\* _prepare_html_render(self, fmt) with the body of its with statement
prepare_html_render(w, cfg, node, fmt, envs) ==
    IF fmt = "none"
    THEN [w |-> w, outcome |-> "skipped", exc |-> NoExc, calls |-> <<>>]
    ELSE html_lookup_and_render(w, cfg, node, fmt, envs)

\* lines 480-483, tag being what gettag(self, fnames, node) did: its
\* exception leaves the visitor, else the tag is appended to the body
html_append(p, node, fmt, tag) ==
    IF tag.exc # NoExc
    THEN Visit([p.w EXCEPT !.warnings = @ \o tag.warnings], "html", node, fmt, "raised",
               tag.exc, p.calls, <<>>, tag.consumed)
    ELSE Visit([p.w EXCEPT !.warnings = @ \o tag.warnings], "html", node, fmt, "embedded",
               NoExc, p.calls, tag.markup, tag.consumed)

\* after the with statement, p being what it did (lines 475-483)
html_embed(p, cfg, node, fmt, tenv) ==
    IF p.outcome # "ok"
    THEN Visit(p.w, "html", node, fmt, p.outcome, p.exc, p.calls, <<>>, {})
    ELSE html_append(p, node, fmt, gettag(fmt, p.w.files, cfg.builder, node, tenv))

\* the effective format (lines 470-473)
html_fmt(cfg, node) ==
    IF Has(node, "html_format") THEN node.html_format ELSE cfg.plantuml_output_format

\* html_visit_plantuml(self, node)
html_visit_plantuml(w, cfg, node, envs, tenv) ==
    html_embed(prepare_html_render(w, cfg, node, html_fmt(cfg, node), envs),
               cfg, node, html_fmt(cfg, node), tenv)

-----------------------------------------------------------------------------
(* Text *)

NoPath == [dir |-> <<>>, name |-> [prefix |-> "", key |-> <<>>, ext |-> ""]]

\* render_plantuml_inline(self, node, fileformat): the decoded stdout
render_plantuml_inline(w, cfg, node, fileformat, env) ==
    LET w1 == [w EXCEPT !.popens = Append(@, generate_plantuml_args(cfg, node, fileformat))]
        all == {"launch", "returncode", "serr", "sout"}
        text == decode_utf8(env.sout)
    IN IF env.launch = "ENOENT"
       THEN [w |-> w1, ret |-> <<>>, exc |-> PlantUmlError(CannotBeRunMsg(cfg.plantuml)),
             consumed |-> {"launch"}]
       ELSE IF env.launch # "ok"
       THEN [w |-> w1, ret |-> <<>>, exc |-> OtherError("OSError"), consumed |-> {"launch"}]
       ELSE IF env.returncode # 0
       THEN [w |-> w1, ret |-> <<>>, exc |-> PlantUmlError(RunningMsg(env.serr)),
             consumed |-> all \ {"sout"}]
       ELSE IF text = DecodeError
       THEN [w |-> w1, ret |-> <<>>, exc |-> OtherError("UnicodeDecodeError"),
             consumed |-> all]
       ELSE [w |-> w1, ret |-> text, exc |-> NoExc, consumed |-> all]

TextVisit(r, node, env, outcome, exc, text) ==
    [Visit(r.w, "text", node, "txt", outcome, exc, <<>>, text, r.consumed)
        EXCEPT !.inline = <<[env |-> env, exc |-> r.exc, ret |-> r.ret]>>]

\* self.add_text(text); the text added sits in the alt slot of the markup
Text(text) == <<Markup("text", NoPath, text, <<>>, FALSE, <<>>, <<>>)>>

\* text_visit_plantuml without the fallback: the error leaves the visitor
text_visit_plantuml_nofallback(w, cfg, node, env) ==
    LET r == render_plantuml_inline(w, cfg, node, "txt", env)
    IN IF r.exc # NoExc
       THEN TextVisit(r, node, env, "raised", r.exc, <<>>)
       ELSE TextVisit(r, node, env, "embedded", NoExc, Text(r.ret))

\* text_visit_plantuml(self, node)
text_visit_plantuml(w, cfg, node, env) ==
    LET r == render_plantuml_inline(w, cfg, node, "txt", env)
    IN IF r.exc.type = "PlantUmlError"
       THEN TextVisit([r EXCEPT !.w = warn(r.w, r.exc.msg)], node, env, "embedded", NoExc,
                      Text(node.uml))
       ELSE IF r.exc # NoExc
       THEN TextVisit(r, node, env, "raised", r.exc, <<>>)
       ELSE TextVisit(r, node, env, "embedded", NoExc, Text(r.ret))

-----------------------------------------------------------------------------
(* LaTeX and PDF *)

(* What the outside world answers to the conversion tool.                  *)
(*   launch      Popen of epstopdf: "ok", or the errno                     *)
(*   bash        Popen of bash with the same arguments: "ok", or the errno *)
(*   returncode, serr   of the conversion                                  *)
(*   left        what a failed conversion leaves at the PDF path           *)

DefaultConvEnv ==
    [launch |-> "ok", bash |-> "ok", returncode |-> 0, serr |-> "", left |-> "nothing"]

ConvEnvs ==
    {[DefaultConvEnv EXCEPT !.launch = l] : l \in {"ok", "ENOENT", "EACCES"}}
    \cup {[DefaultConvEnv EXCEPT !.launch = "ENOEXEC", !.bash = b] :
            b \in {"ok", "ENOENT", "EACCES"}}
    \cup {[DefaultConvEnv EXCEPT !.launch = l, !.returncode = 1, !.serr = "bad eps",
                                 !.left = x] :
            l \in {"ok", "ENOEXEC"}, x \in {"nothing", "partial"}}

ConvCanonical(cenv, consumed) ==
    \A k \in DOMAIN DefaultConvEnv : k \notin consumed => cenv[k] = DefaultConvEnv[k]

EpstopdfCannotBeRunMsg(cmd) ==
    [label |-> "epstopdf command %r cannot be run", list |-> <<>>, value |-> cmd]

EpstopdfRunningMsg(serr) ==
    [label |-> "error while running epstopdf", list |-> <<>>, value |-> serr]

\* name[:-4] + '.pdf'
ToPdf(path) == [path EXCEPT !.name.ext = "pdf"]

\* the Popen calls of one conversion (launches), and what each one met
Launched(cenv, launches) ==
    [i \in DOMAIN launches |-> IF launches[i] = "direct" THEN cenv.launch ELSE cenv.bash]

ConvResult(w, ret, exc, consumed, launches, met) ==
    [w |-> w, ret |-> ret, exc |-> exc, consumed |-> consumed,
     conv |-> [launches |-> launches, met |-> met, exc |-> exc,
               argv |-> SubSeq(w.popens, Len(w.popens) - Len(launches) + 1, Len(w.popens))]]

\* _convert_eps_to_pdf retrying through bash whatever the launch error
convert_eps_to_pdf_anyerror(w, cfg, names, cenv) ==
    LET args == <<cfg.plantuml_epstopdf, names[2]>>
        retry == cenv.launch # "ok"
        launches == IF retry THEN <<"direct", "bash">> ELSE <<"direct">>
        w1 == [w EXCEPT !.popens = IF retry THEN @ \o <<args, <<"bash">> \o args>>
                                   ELSE Append(@, args)]
        errno == IF retry THEN cenv.bash ELSE cenv.launch
        seen == IF retry THEN {"launch", "bash"} ELSE {"launch"}
        pdf == <<ToPdf(names[1]), ToPdf(names[2])>>
        ran == seen \cup {"returncode", "serr", "left"}
    IN IF errno = "ENOENT"
       THEN ConvResult(w1, NoRet,
                       PlantUmlError(EpstopdfCannotBeRunMsg(cfg.plantuml_epstopdf)),
                       seen, launches,
                       Launched(cenv, launches))
       ELSE IF errno # "ok"
       THEN ConvResult(w1, NoRet, OtherError("OSError"), seen, launches,
                       Launched(cenv, launches))
       ELSE IF cenv.returncode # 0
       THEN ConvResult(IF cenv.left = "nothing" THEN w1
                       ELSE [w1 EXCEPT !.files =
                               write(open_wb(w1.files, pdf[2]), pdf[2], "partial", "epstopdf")],
                       NoRet, PlantUmlError(EpstopdfRunningMsg(cenv.serr)), ran, launches,
                       Launched(cenv, launches))
       ELSE ConvResult([w1 EXCEPT !.files =
                          write(open_wb(w1.files, pdf[2]), pdf[2], "rendered", "epstopdf")],
                       pdf, NoExc, ran \ {"left"}, launches,
                       Launched(cenv, launches))

\* _convert_eps_to_pdf(self, refname, fname); launches lists the Popen calls
convert_eps_to_pdf(w, cfg, names, cenv) ==
    LET args == <<cfg.plantuml_epstopdf, names[2]>>
        retry == cenv.launch = "ENOEXEC"
        launches == IF retry THEN <<"direct", "bash">> ELSE <<"direct">>
        w1 == [w EXCEPT !.popens = IF retry THEN @ \o <<args, <<"bash">> \o args>>
                                   ELSE Append(@, args)]
        errno == IF retry THEN cenv.bash ELSE cenv.launch
        seen == IF retry THEN {"launch", "bash"} ELSE {"launch"}
        pdf == <<ToPdf(names[1]), ToPdf(names[2])>>
        ran == seen \cup {"returncode", "serr", "left"}
    IN IF errno = "ENOENT"
       THEN ConvResult(w1, NoRet,
                       PlantUmlError(EpstopdfCannotBeRunMsg(cfg.plantuml_epstopdf)),
                       seen, launches,
                       Launched(cenv, launches))
       ELSE IF errno # "ok"
       THEN ConvResult(w1, NoRet, OtherError("OSError"), seen, launches,
                       Launched(cenv, launches))
       ELSE IF cenv.returncode # 0
       THEN ConvResult(IF cenv.left = "nothing" THEN w1
                       ELSE [w1 EXCEPT !.files =
                               write(open_wb(w1.files, pdf[2]), pdf[2], "partial", "epstopdf")],
                       NoRet, PlantUmlError(EpstopdfRunningMsg(cenv.serr)), ran, launches,
                       Launched(cenv, launches))
       ELSE ConvResult([w1 EXCEPT !.files =
                          write(open_wb(w1.files, pdf[2]), pdf[2], "rendered", "epstopdf")],
                       pdf, NoExc, ran \ {"left"}, launches,
                       Launched(cenv, launches))

\* the keys of _KNOWN_LATEX_FORMATS, in the order of the dict
KNOWN_LATEX_FORMATS == <<"eps", "pdf", "png">>

\* the file kind of _KNOWN_LATEX_FORMATS[fmt]
latex_fileformat(fmt) ==
    CASE fmt = "eps" -> "eps"
      [] fmt = "pdf" -> "eps"
      [] fmt = "png" -> "png"

\* the image node put for the rendered file: its uri is refname in
\* latex_visit_plantuml (line 538) and outfname in pdf_visit_plantuml (593)
ImageNode(visitor, node, names) ==
    <<Markup("image", IF visitor = "pdf" THEN names[2] ELSE names[1],
             Get(node, "alt", node.uml), <<>>, FALSE, <<>>, <<>>)>>

\* after the post-processing, c being what _convert_eps_to_pdf did and r
\* what render_plantuml did before it
converted(r, c, visitor, node, fmt) ==
    IF c.exc.type = "PlantUmlError"
    THEN [Visit(warn(c.w, c.exc.msg), visitor, node, fmt, "skipped", NoExc, <<r.call>>,
                <<>>, c.consumed) EXCEPT !.conv = <<c.conv>>]
    ELSE IF c.exc # NoExc
    THEN [Visit(c.w, visitor, node, fmt, "raised", c.exc, <<r.call>>, <<>>, c.consumed)
             EXCEPT !.conv = <<c.conv>>]
    ELSE [Visit(c.w, visitor, node, fmt, "embedded", NoExc, <<r.call>>,
                ImageNode(visitor, node, c.ret), c.consumed) EXCEPT !.conv = <<c.conv>>]

\* after render_plantuml, r being what it did
rendered(r, cfg, visitor, node, fmt, convert, cenv) ==
    IF r.exc.type = "PlantUmlError"
    THEN Visit(warn(r.w, r.exc.msg), visitor, node, fmt, "skipped", NoExc, <<r.call>>,
               <<>>, {})
    ELSE IF r.exc # NoExc
    THEN Visit(r.w, visitor, node, fmt, "raised", r.exc, <<r.call>>, <<>>, {})
    ELSE IF ~convert
    THEN Visit(r.w, visitor, node, fmt, "embedded", NoExc, <<r.call>>,
               ImageNode(visitor, node, r.ret), {})
    ELSE converted(r, convert_eps_to_pdf(r.w, cfg, r.ret, cenv), visitor, node, fmt)

\* render_plantuml, then the post-processing of the format (convert is
\* whether the format's postproc is _convert_eps_to_pdf); PlantUmlError is
\* caught by the visitor, anything else leaves it
render_and_convert(w, cfg, visitor, node, fmt, fileformat, convert, env, cenv) ==
    rendered(render_plantuml(w, cfg, node, fileformat, env),
             cfg, visitor, node, fmt, convert, cenv)

\* the effective format (lines 518-521)
latex_fmt(cfg, node) ==
    IF Has(node, "latex_format") THEN node.latex_format
    ELSE cfg.plantuml_latex_output_format

\* latex_visit_plantuml(self, node)
latex_visit_plantuml(w, cfg, node, env, cenv) ==
    LET fmt == latex_fmt(cfg, node)
    IN IF fmt = "none"
       THEN Visit(w, "latex", node, fmt, "skipped", NoExc, <<>>, <<>>, {})
       ELSE IF fmt \notin Range(KNOWN_LATEX_FORMATS)
       THEN Visit(warn(w, FormatMsg("plantuml_latex_output_format", KNOWN_LATEX_FORMATS, fmt)),
                  "latex", node, fmt, "skipped", NoExc, <<>>, <<>>, {})
       ELSE render_and_convert(w, cfg, "latex", node, fmt, latex_fileformat(fmt),
                               fmt = "pdf", env, cenv)

\* pdf_visit_plantuml(self, node)
pdf_visit_plantuml(w, cfg, node, env, cenv) ==
    render_and_convert(w, cfg, "pdf", node, "pdf", "eps", TRUE, env, cenv)

-----------------------------------------------------------------------------
(* Teardown *)

\* stop_ftp_server that terminates the server and leaves the handle set
stop_ftp_server_keep(cfg, ftp) ==
    IF ~cfg.plantuml_use_ftp_mode \/ ftp = NoHandle
    THEN [ftp |-> ftp, exc |-> NoExc, steps |-> <<>>]
    ELSE IF ftp[1].server_process = None
    THEN [ftp |-> ftp, exc |-> OtherError("AttributeError"), steps |-> <<>>]
    ELSE [ftp |-> <<[ftp[1] EXCEPT !.server_process = "terminated"]>>, exc |-> NoExc,
          steps |-> <<"terminate", "sleep">>]

\* stop_ftp_server(app, exception), connected to 'build-finished';
\* PlantumlFtp.stop_server calls terminate() on server_process, which is
\* None when no server was spawned
stop_ftp_server(cfg, ftp) ==
    IF ~cfg.plantuml_use_ftp_mode \/ ftp = NoHandle
    THEN [ftp |-> ftp, exc |-> NoExc, steps |-> <<>>]
    ELSE IF ftp[1].server_process = None
    THEN [ftp |-> ftp, exc |-> OtherError("AttributeError"), steps |-> <<>>]
    ELSE [ftp |-> NoHandle, exc |-> NoExc, steps |-> <<"terminate", "sleep", "clear">>]

-----------------------------------------------------------------------------
(* The process *)

HtmlFormatValues == {"png", "svg", "svg_img", "svg_obj", "none", "jpg"}
LatexFormatValues == {"eps", "pdf", "png", "none", "svg"}

\* setup(app): the defaults of the configuration values
DefaultConfig ==
    [builder |-> "html",
     plantuml |-> "plantuml",
     plantuml_output_format |-> "png",
     plantuml_epstopdf |-> "epstopdf",
     plantuml_latex_output_format |-> "png",
     plantuml_syntax_error_image |-> FALSE,
     plantuml_use_ftp_mode |-> FALSE,
     plantuml_spawn_ftp_server |-> TRUE]

Transports ==
    {[DefaultConfig EXCEPT !.plantuml_syntax_error_image = t, !.plantuml_use_ftp_mode = f,
                           !.plantuml_spawn_ftp_server = sp] :
        t \in BOOLEAN, f \in BOOLEAN, sp \in BOOLEAN}

\* the configurations built: conf.py and the builder chosen
Configs ==
    {[c EXCEPT !.builder = "html", !.plantuml_output_format = f] :
        c \in {t \in Transports : t.plantuml_use_ftp_mode \/ t.plantuml_spawn_ftp_server},
        f \in HtmlFormatValues}
    \cup {[c EXCEPT !.builder = "latex", !.plantuml_latex_output_format = f] :
        c \in {t \in Transports : t.plantuml_use_ftp_mode \/ t.plantuml_spawn_ftp_server},
        f \in LatexFormatValues}
    \cup {[c EXCEPT !.builder = b] :
        c \in {t \in Transports : ~t.plantuml_use_ftp_mode /\ t.plantuml_spawn_ftp_server},
        b \in {"text", "pdf"}}

NoFiles == [p \in {} |-> 0]

NoVisit ==
    [visitor |-> "none", node |-> mknode(<<>>, <<>>), fmt |-> "", outcome |-> "",
     exc |-> NoExc, calls |-> <<>>, body |-> <<>>, conv |-> <<>>, inline |-> <<>>,
     warnings |-> <<>>, popens |-> <<>>, created |-> {}, rewritten |-> {}, steps |-> <<>>]

NoPure == [fn |-> "none"]

Init ==
    /\ config \in Configs
    /\ phase = "building"
    /\ builds = 1
    /\ visits = 0
    /\ files = NoFiles
    /\ invoked = NoFiles
    /\ PLANTUML_FTP_SERVER = NoHandle
    /\ remote = {}
    /\ last = NoVisit
    /\ pure = NoPure

\* the visitor has run: its effects, and what it did
Commit(v) ==
    /\ files' = v.w.files
    /\ invoked' = v.w.invoked
    /\ PLANTUML_FTP_SERVER' = v.w.ftp
    /\ remote' = v.w.remote
    /\ last' = [visitor |-> v.visitor, node |-> v.node, fmt |-> v.fmt,
                outcome |-> v.outcome, exc |-> v.exc, calls |-> v.calls, body |-> v.body,
                conv |-> v.conv, inline |-> v.inline,
                warnings |-> v.w.warnings, popens |-> v.w.popens,
                created |-> DOMAIN v.w.files \ DOMAIN files,
                rewritten |-> {p \in DOMAIN files : v.w.files[p] # files[p]},
                steps |-> <<>>]
    /\ visits' = visits + 1
    /\ phase' = IF v.outcome = "raised" THEN "aborted" ELSE "building"
    /\ UNCHANGED <<config, builds, pure>>

Visiting(builder) ==
    /\ phase = "building"
    /\ config.builder = builder
    /\ visits < MaxVisits

Now == World(files, invoked, PLANTUML_FTP_SERVER, remote)

\* the answers a render call can get in this state
EnvsFor(cfg, ftp) ==
    IF ~cfg.plantuml_use_ftp_mode THEN ProcEnvs
    ELSE IF ftp = NoHandle THEN FtpEnvs
    ELSE {e \in FtpEnvs : e.spawn = DefaultEnv.spawn /\ e.refusals = DefaultEnv.refusals}

HtmlFmt(node) == html_fmt(config, node)

LatexFmt(node) == latex_fmt(config, node)

TagEnvsFor(node, fmt) ==
    {t \in TagEnvs :
        /\ (fmt \notin {"png", "svg"} \/ ~\E k \in {"scale", "width", "height"} : Has(node, k))
              => t.pil = DefaultTagEnv.pil /\ t.probe = DefaultTagEnv.probe
        /\ fmt \notin {"svg", "svg_obj"} => t.style = DefaultTagEnv.style}

HtmlVisit ==
    /\ Visiting("html")
    /\ \E node \in Nodes :
         \E e1 \in EnvsFor(config, PLANTUML_FTP_SERVER) :
           \E e2 \in IF HtmlFmt(node) = "svg" THEN EnvsFor(config, PLANTUML_FTP_SERVER)
                     ELSE {DefaultEnv} :
             \E tenv \in TagEnvsFor(node, HtmlFmt(node)) :
                LET v == html_visit_plantuml(Now, config, node, <<e1, e2>>, tenv)
                IN /\ EnvsCanonical(<<e1, e2>>, v.calls)
                   /\ TagCanonical(tenv, v.tagconsumed)
                   /\ Commit(v)

LatexVisit ==
    /\ Visiting("latex")
    /\ \E node \in Nodes :
         \E env \in EnvsFor(config, PLANTUML_FTP_SERVER) :
           \E cenv \in IF LatexFmt(node) = "pdf" THEN ConvEnvs ELSE {DefaultConvEnv} :
              LET v == latex_visit_plantuml(Now, config, node, env, cenv)
              IN /\ EnvsCanonical(<<env>>, v.calls)
                 /\ ConvCanonical(cenv, v.tagconsumed)
                 /\ Commit(v)

PdfVisit ==
    /\ Visiting("pdf")
    /\ \E node \in Nodes, env \in EnvsFor(config, PLANTUML_FTP_SERVER), cenv \in ConvEnvs :
          LET v == pdf_visit_plantuml(Now, config, node, env, cenv)
          IN /\ EnvsCanonical(<<env>>, v.calls)
             /\ ConvCanonical(cenv, v.tagconsumed)
             /\ Commit(v)

TextVisitNode ==
    /\ Visiting("text")
    /\ \E node \in Nodes, env \in InlineEnvs :
          LET v == text_visit_plantuml(Now, config, node, env)
          IN /\ Canonical(env, v.tagconsumed)
             /\ Commit(v)

\* the build ends, normally or on the exception that left a visitor, and
\* Sphinx emits 'build-finished'
BuildFinished ==
    /\ phase \in {"building", "aborted"}
    /\ LET r == stop_ftp_server(config, PLANTUML_FTP_SERVER)
       IN /\ PLANTUML_FTP_SERVER' = r.ftp
          /\ last' = [NoVisit EXCEPT !.visitor = "build-finished", !.exc = r.exc,
                                     !.outcome = IF r.exc = NoExc THEN "done" ELSE "raised",
                                     !.steps = r.steps]
          \* the files a server holds go with its process
          /\ remote' = IF r.steps = <<>> THEN remote ELSE {}
    /\ phase' = "finished"
    /\ UNCHANGED <<config, builds, visits, files, invoked, pure>>

\* the next build of the same project in the same process, into a fresh
\* output directory
StartBuild ==
    /\ phase = "finished"
    /\ builds < MaxBuilds
    /\ phase' = "building"
    /\ builds' = builds + 1
    /\ visits' = 0
    /\ files' = NoFiles
    /\ invoked' = NoFiles
    /\ last' = NoVisit
    /\ UNCHANGED <<config, PLANTUML_FTP_SERVER, remote, pure>>

Next ==
    \/ HtmlVisit
    \/ LatexVisit
    \/ PdfVisit
    \/ TextVisitNode
    \/ BuildFinished
    \/ StartBuild

Spec == Init /\ [][Next]_vars

-----------------------------------------------------------------------------
(* The pure functions, applied to inputs drawn from bounded sets *)

\* include directories are paths of existing directories: no NUL in them
NameDirs == SeqsUpTo({97, 233}, MaxDirLen)
NameTexts == SeqsUpTo({NUL, 97, 233}, MaxLen)

NameNodes == {mknode(d, u) : d \in NameDirs, u \in NameTexts}

\* the same blocks, with other presentation options
Decorated(n) == {n, n @@ [alt |-> <<70>>, scale |-> 20, name |-> <<120>>]}

\* what the option validators of UmlDirective let through: a number, with
\* or without a fraction, and a unit glued to it, or none
Widths ==
    { <<53, 48, 109, 109>>,        \* 50mm
      <<53, 48>>,                  \* 50
      <<49, 48, 48, 37>>,          \* 100%
      <<49, 46, 53, 101, 109>>,    \* 1.5em
      <<46, 53, 101, 109>> }       \* .5em
Heights ==
    { <<51, 48>>,                  \* 30
      <<55, 112, 120>>,            \* 7px
      <<50, 46, 53, 99, 109>> }    \* 2.5cm
Scales == {0, 20, 100, 150}

Opt(k, S) == {[x \in {} |-> 0]} \cup {[y \in {k} |-> v] : v \in S}

TagNodes ==
    {mknode(<<>>, <<72, 105>>) @@ sc @@ wd @@ ht :
        sc \in Opt("scale", Scales), wd \in Opt("width", Widths),
        ht \in Opt("height", Heights)}

PureInit ==
    /\ config = DefaultConfig
    /\ phase = "pure"
    /\ builds = 0
    /\ visits = 0
    /\ files = NoFiles
    /\ invoked = NoFiles
    /\ PLANTUML_FTP_SERVER = NoHandle
    /\ remote = {}
    /\ last = NoVisit
    /\ pure = NoPure

NameBlocks ==
    /\ pure = NoPure
    /\ \E builder \in {"html", "latex"}, fileformat \in {"png", "svg"},
          n \in NameNodes, b \in NameNodes :
          \E a \in Decorated(n) :
             pure' = [fn |-> "generate_name", builder |-> builder,
                      fileformat |-> fileformat, a |-> a, b |-> b,
                      na |-> generate_name(builder, a, fileformat),
                      nb |-> generate_name(builder, b, fileformat)]
    /\ UNCHANGED <<config, phase, builds, visits, files, invoked, PLANTUML_FTP_SERVER,
                   remote, last>>

PngTag ==
    /\ pure = NoPure
    /\ \E node \in TagNodes :
         \E tenv \in TagEnvsFor(node, "png") :
            LET r == get_png_tag(generate_name("html", node, "png"), node, tenv)
            IN /\ TagCanonical(tenv, r.consumed)
               /\ pure' = [fn |-> "get_png_tag", node |-> node, tenv |-> tenv, r |-> r]
    /\ UNCHANGED <<config, phase, builds, visits, files, invoked, PLANTUML_FTP_SERVER,
                   remote, last>>

(* The vector files _get_svg_style reads: well-formed documents of one   *)
(* or two tags, each with its attributes, laid out in one line or more.  *)

StyleName == <<115, 116, 121, 108, 101>>                       \* style
SvgName == <<115, 118, 103>>                                   \* svg

SvgAttrs ==
    { [name |-> StyleName, quote |-> 34, value |-> SvgStyle],                 \* style="w:1px;"
      [name |-> StyleName, quote |-> 39, value |-> <<102, 58, 34, 97, 34, 59>>], \* style='f:"a";'
      [name |-> <<100, 97, 116, 97, 45>> \o StyleName, quote |-> 34,
       value |-> <<120>>],                                                    \* data-style="x"
      [name |-> <<119, 105, 100, 116, 104>>, quote |-> 34, value |-> <<49>>] } \* width="1"

\* an attribute name is given once in a tag
SvgAttrLists ==
    {l \in SeqsUpTo(SvgAttrs, MaxAttrs) :
        \A i \in 1..Len(l), j \in 1..Len(l) : l[i].name = l[j].name => i = j}

SvgTags == {[name |-> n, attrs |-> l] : n \in {SvgName, <<103>>}, l \in SvgAttrLists}

SvgDocs == {<<>>} \cup {<<t>> : t \in SvgTags} \cup {<<t, u>> : t \in SvgTags, u \in SvgTags}

\* sep stands before each attribute, join after each tag: a space or a
\* newline, nothing or a newline
Layouts == [sep : {<<32>>, <<10>>}, join : {<<>>, <<10>>}]

RECURSIVE Flat(_)
Flat(ss) == IF ss = <<>> THEN <<>> ELSE Head(ss) \o Flat(Tail(ss))

AttrText(a) == a.name \o <<61, a.quote>> \o a.value \o <<a.quote>>

TagText(t, sep) ==
    <<60>> \o t.name \o Flat([i \in 1..Len(t.attrs) |-> sep \o AttrText(t.attrs[i])])
           \o <<62>>

DocText(d, lay) == Flat([i \in 1..Len(d) |-> TagText(d[i], lay.sep) \o lay.join])

\* the value of the style attribute of the first svg tag of a document,
\* empty when there is no such tag or it has no such attribute
StyleAttrOf(d) ==
    LET svgs == {i \in 1..Len(d) : d[i].name = SvgName}
        attrs == d[Least(svgs)].attrs
        styles == {k \in 1..Len(attrs) : attrs[k].name = StyleName}
    IN IF svgs = {} THEN <<>>
       ELSE IF styles = {} THEN <<>>
       ELSE attrs[Least(styles)].value

\* the file written by test_get_svg_style, and the style it expects
TestSvgText ==
    <<60, 63, 120, 109, 108, 32, 118, 101, 114, 115, 105, 111, 110, 61, 34, 49, 46, 48,
    34, 32, 101, 110, 99, 111, 100, 105, 110, 103, 61, 34, 85, 84, 70, 45, 56, 34, 32,
    115, 116, 97, 110, 100, 97, 108, 111, 110, 101, 61, 34, 121, 101, 115, 34, 63, 62,
    60, 115, 118, 103, 32, 120, 109, 108, 110, 115, 61, 34, 104, 116, 116, 112, 58, 47,
    47, 119, 119, 119, 46, 119, 51, 46, 111, 114, 103, 47, 50, 48, 48, 48, 47, 115, 118,
    103, 34, 32, 104, 101, 105, 103, 104, 116, 61, 34, 49, 52, 55, 112, 116, 34, 32,
    115, 116, 121, 108, 101, 61, 34, 119, 105, 100, 116, 104, 58, 49, 49, 53, 112, 120,
    59, 104, 101, 105, 103, 104, 116, 58, 49, 52, 55, 112, 120, 59, 34, 32, 118, 101,
    114, 115, 105, 111, 110, 61, 34, 49, 46, 49, 34, 32, 118, 105, 101, 119, 66, 111,
    120, 61, 34, 48, 32, 48, 32, 49, 49, 53, 32, 49, 52, 55, 34, 32, 119, 105, 100, 116,
    104, 61, 34, 49, 49, 53, 112, 116, 34, 62, 60, 100, 101, 102, 115, 47, 62>>
TestSvgStyle ==
    <<119, 105, 100, 116, 104, 58, 49, 49, 53, 112, 120, 59, 104, 101, 105, 103, 104, 116,
      58, 49, 52, 55, 112, 120, 59>>

SvgInputs ==
    {[text |-> DocText(d, lay), declared |-> StyleAttrOf(d), doc |-> <<d>>, lay |-> <<lay>>] :
        d \in SvgDocs, lay \in Layouts}
    \cup {[text |-> TestSvgText, declared |-> TestSvgStyle, doc |-> <<>>, lay |-> <<>>]}

\* _get_svg_style on a rendered file, and the tag _get_svg_obj_tag makes
\* of it
SvgStyleOf ==
    /\ pure = NoPure
    /\ \E in \in SvgInputs :
          LET names == generate_name("html", mknode(<<>>, <<72, 105>>), "svg")
              fs == write(open_wb(NoFiles, names[2]), names[2],
                          IF in.text = <<>> THEN "empty" ELSE "rendered", "plantuml")
              style == svg_style_of_lines(readlines(in.text))
          IN pure' = [fn |-> "get_svg_style", text |-> in.text, declared |-> in.declared,
                      doc |-> in.doc, lay |-> in.lay, style |-> style,
                      tag |-> get_svg_obj_tag(fs, names,
                                              [DefaultTagEnv EXCEPT !.style = style])]
    /\ UNCHANGED <<config, phase, builds, visits, files, invoked, PLANTUML_FTP_SERVER,
                   remote, last>>

PureNext == NameBlocks \/ PngTag \/ SvgStyleOf

SpecPure == PureInit /\ [][PureNext]_vars

-----------------------------------------------------------------------------
(* Properties *)

Calls == {last.calls[i] : i \in 1..Len(last.calls)}
Inlines == {last.inline[i] : i \in 1..Len(last.inline)}
Warnings == Range(last.warnings)

\* the renderer was launched as a subprocess and exited with a non-zero status
ExitedNonZero(c) ==
    /\ "returncode" \in c.consumed
    /\ c.env.launch = "ok"
    /\ c.env.returncode # 0

\* the launch of the renderer failed because the command was not found
NotFound(c) == "launch" \in c.consumed /\ c.env.launch = "ENOENT"

NamesOf(c) == generate_name(config.builder, last.node, c.fileformat)

\* C1, as stated, for the subprocess renderer: for the blocks that share
\* (contextDir, sourceText) the renderer is invoked at most once in all, and
\* they yield one rendered artifact file.
C1_OnceForAllKinds ==
    ~config.plantuml_use_ftp_mode =>
        /\ \A p \in DOMAIN invoked : invoked[p] <= 1
        /\ \A p \in DOMAIN invoked, q \in DOMAIN invoked :
              p.name.key = q.name.key => p = q
        /\ \A p \in DOMAIN files, q \in DOMAIN files :
              (/\ p.name.key = q.name.key
               /\ files[p].by # "epstopdf" /\ files[q].by # "epstopdf") => p = q

\* C1, amended: for each file kind, the renderer is invoked at most once for
\* all the blocks that share (contextDir, sourceText); a later call for such
\* a block and kind returns the existing artifact without a renderer run.
C1_OncePerFileKind ==
    /\ \A p \in DOMAIN invoked : invoked[p] <= 1
    /\ \A c \in Calls :
          c.existed => /\ c.ret = NamesOf(c)
                       /\ c.exc = NoExc
                       /\ c.popens = 0
                       /\ c.after = c.before

\* two blocks with the same source, the second with other options: the
\* second visit found the file of the first and embedded a reference to it
C1_Witness ==
    /\ visits = 2
    /\ last.visitor = "html"
    /\ Has(last.node, "alt")
    /\ last.outcome = "embedded"
    /\ \E c \in Calls : c.existed /\ invoked[c.outfname] = 1 /\ last.body[1].ref = c.ret[1]

\* C2: a render call that finds a file at the derived path returns
\* (refname, outfname) at once: no subprocess, no transport handle created
\* or used, no warning, and the file as it was.
C2_ExistingFileShortcut ==
    \A c \in Calls :
        c.existed => /\ c.ret = NamesOf(c)
                     /\ c.exc = NoExc
                     /\ c.popens = 0
                     /\ ~c.ftp_used
                     /\ c.ftp_after = c.ftp_before
                     /\ c.after = c.before
                     /\ c.warned = <<>>
                     /\ c.consumed = {}

C2_Witness ==
    /\ config.plantuml_use_ftp_mode
    /\ \E c \in Calls : c.existed /\ c.ret[2] \in DOMAIN files

OtherFailure ==
    \/ \E c \in Calls : c.exc # NoExc
    \/ \E i \in 1..Len(last.conv) : last.conv[i].exc # NoExc
    \/ last.exc.msg.label = "Invalid %s"

\* C4: a non-zero exit with the tolerate-errors option set raises nothing:
\* the render call returns the artifact path after a warning that carries
\* the renderer's stderr, and the visit embeds the artifact.
C4_ToleratedExitEmbeds ==
    \A c \in Calls :
        (ExitedNonZero(c) /\ config.plantuml_syntax_error_image)
           => /\ c.exc = NoExc
              /\ c.ret = NamesOf(c)
              /\ c.warned = <<RunningMsg(c.env.serr)>>
              /\ c.env.serr \in Stderrs
              /\ RunningMsg(c.env.serr) \in Warnings
              /\ ~OtherFailure =>
                    /\ last.outcome = "embedded"
                    /\ last.exc = NoExc
                    /\ last.body # <<>>
                    /\ phase = "building"

C4_Witness ==
    /\ config.plantuml_syntax_error_image
    /\ last.visitor = "html"
    /\ last.fmt = "png"
    /\ last.outcome = "embedded"
    /\ \E c \in Calls :
          /\ ExitedNonZero(c)
          /\ last.body[1].ref = c.ret[1]
          /\ last.warnings = <<RunningMsg("no such file")>>

\* the messages that report an unsupported output-format value
FormatErrors ==
    {m \in Warnings : m.label \in {"plantuml_output_format", "plantuml_latex_output_format"}}

\* does the visitor of the builder report the output-format error for the
\* value v of its output-format setting
ReportsFormatError(builder, v) ==
    LET n == mknode(<<>>, <<72, 105>>)
        w == World(NoFiles, NoFiles, NoHandle, {})
        r == IF builder = "html"
             THEN html_visit_plantuml(w, [DefaultConfig EXCEPT !.plantuml_output_format = v],
                                      n, <<DefaultEnv, DefaultEnv>>, DefaultTagEnv)
             ELSE latex_visit_plantuml(w, [DefaultConfig EXCEPT !.builder = "latex",
                                                  !.plantuml_latex_output_format = v],
                                       n, DefaultEnv, DefaultConvEnv)
    IN \E i \in 1..Len(r.w.warnings) :
          r.w.warnings[i].label \in {"plantuml_output_format", "plantuml_latex_output_format"}

FormatValues(builder) == IF builder = "html" THEN HtmlFormatValues ELSE LatexFormatValues

\* C5: the error for an unsupported output-format value names the value and
\* every value the setting accepts, that is every value for which the
\* visitor does not report this error.
C5_NamesValueAndAllAccepted ==
    \A m \in FormatErrors :
        /\ m.value = last.fmt
        /\ \A v \in FormatValues(last.visitor) :
              ~ReportsFormatError(last.visitor, v) => v \in Range(m.list)

\* C6, as stated (for a renderer whose stdout is UTF-8): the text visitor
\* always emits text, the renderer's stdout after an exit status of zero and
\* the diagram source with a warning after any failure of the renderer, to
\* launch or by its exit status, and no renderer failure aborts the visit.
C6_TextAlwaysEmitted ==
    \A r \in Inlines :
        decode_utf8(r.env.sout) # DecodeError =>
            /\ last.outcome = "embedded"
            /\ Len(last.body) = 1
            /\ (r.env.launch = "ok" /\ r.env.returncode = 0)
                  => last.body[1].alt = decode_utf8(r.env.sout) /\ last.warnings = <<>>
            /\ (r.env.launch # "ok" \/ r.env.returncode # 0)
                  => last.body[1].alt = last.node.uml /\ Len(last.warnings) = 1

\* C6, amended: the text visitor emits the renderer's decoded stdout when
\* the renderer exits zero with UTF-8 output, and the diagram source with a
\* warning when the renderer is not found or exits non-zero; neither failure
\* aborts the visit.  A launch that fails with another OS error, and stdout
\* that is not UTF-8, raise out of the visitor.
C6_TextOrFallback ==
    \A r \in Inlines :
        LET ran == r.env.launch = "ok"
            good == ran /\ r.env.returncode = 0 /\ decode_utf8(r.env.sout) # DecodeError
            failed == r.env.launch = "ENOENT" \/ (ran /\ r.env.returncode # 0)
        IN /\ good => /\ last.outcome = "embedded"
                      /\ last.body = Text(decode_utf8(r.env.sout))
                      /\ last.warnings = <<>>
           /\ failed => /\ last.outcome = "embedded"
                        /\ last.body = Text(last.node.uml)
                        /\ last.warnings = <<r.exc.msg>>
                        /\ r.exc.type = "PlantUmlError"
           /\ (~good /\ ~failed) <=> last.outcome = "raised"
           /\ last.created = {} /\ last.rewritten = {}

C6_Witness ==
    /\ last.visitor = "text"
    /\ last.outcome = "embedded"
    /\ last.body = Text(last.node.uml)
    /\ \E r \in Inlines : r.env.launch = "ok" /\ r.env.returncode # 0
    /\ last.warnings = <<RunningMsg("syntax error")>>

\* what was reported of a call: the error it raised, the warnings it gave
Reported(c) == (IF c.exc # NoExc THEN {c.exc.msg} ELSE {}) \cup Range(c.warned)
ReportedInline(r) == IF r.exc # NoExc THEN {r.exc.msg} ELSE {}

CannotBeRunLabel == CannotBeRunMsg("").label
RunningLabel == RunningMsg("").label

\* C7: a renderer that is not found is reported as 'cannot be run', naming
\* the configured command, and a non-zero exit as 'error while running
\* plantuml'; neither is ever reported as the other.
C7_LaunchAndExitErrorsDistinct ==
    /\ CannotBeRunLabel # RunningLabel
    /\ \A c \in Calls :
          /\ NotFound(c) => /\ c.exc.type = "PlantUmlError"
                            /\ c.exc.msg.label = CannotBeRunLabel
                            /\ c.exc.msg.value = config.plantuml
                            /\ Reported(c) = {c.exc.msg}
          /\ ExitedNonZero(c) => /\ Reported(c) # {}
                                 /\ \A m \in Reported(c) : m.label = RunningLabel
          /\ \A m \in Reported(c) :
                /\ m.label = CannotBeRunLabel => NotFound(c)
                /\ m.label = RunningLabel => ExitedNonZero(c)
    /\ \A r \in Inlines :
          /\ r.env.launch = "ENOENT" => /\ r.exc.type = "PlantUmlError"
                                        /\ r.exc.msg.label = CannotBeRunLabel
                                        /\ r.exc.msg.value = config.plantuml
          /\ (r.env.launch = "ok" /\ r.env.returncode # 0)
                => r.exc.type = "PlantUmlError" /\ r.exc.msg.label = RunningLabel
          /\ \A m \in ReportedInline(r) :
                /\ m.label = CannotBeRunLabel => r.env.launch = "ENOENT"
                /\ m.label = RunningLabel => r.env.launch = "ok" /\ r.env.returncode # 0

C7_Witness ==
    /\ \E c \in Calls : NotFound(c) /\ c.exc.msg = CannotBeRunMsg("plantuml")
    /\ last.warnings = <<CannotBeRunMsg("plantuml")>>
    /\ last.outcome = "skipped"

\* C8: with the effective output format 'none' the HTML and LaTeX visitors
\* skip the node: no renderer run, no file created or rewritten, no markup,
\* no warning.
C8_NoneSkipsNode ==
    (last.visitor \in {"html", "latex"} /\ last.fmt = "none")
       => /\ last.outcome = "skipped"
          /\ last.exc = NoExc
          /\ last.calls = <<>>
          /\ last.popens = <<>>
          /\ last.conv = <<>>
          /\ last.created = {}
          /\ last.rewritten = {}
          /\ last.body = <<>>
          /\ last.warnings = <<>>

C8_Witness ==
    /\ last.visitor = "html"
    /\ last.fmt = "none"
    /\ visits = 2
    /\ last.outcome = "skipped"

\* C9: for one builder and file kind, two blocks get the same names from
\* generate_name exactly when they have the same (contextDir, sourceText),
\* whatever their other options.
C9_SameNameIffSameSource ==
    pure.fn = "generate_name" =>
        LET same == pure.a.incdir = pure.b.incdir /\ pure.a.uml = pure.b.uml
        IN /\ (pure.na[2] = pure.nb[2]) <=> same
           /\ (pure.na[1] = pure.nb[1]) <=> same
           /\ pure.na[2].name.ext = pure.fileformat

C9_Witness ==
    /\ pure.fn = "generate_name"
    /\ pure.a # pure.b
    /\ Has(pure.a, "alt")
    /\ pure.a.uml = <<NUL, 233>>
    /\ pure.na = pure.nb

-----------------------------------------------------------------------------
(* Declared dimensions, as the option validators read them: the longest    *)
(* prefix of digits and dots is the number, what follows is the unit.      *)

DeclaredNumberText(s) == SubSeq(s, 1, PrefixLen(s, Digits \cup {46}))
DeclaredUnit(s) == Drop(s, PrefixLen(s, Digits \cup {46}))

RECURSIVE Pow10(_)
Pow10(n) == IF n = 0 THEN 1 ELSE 10 * Pow10(n - 1)

IsDigit(c) == c \in Digits

\* a decimal numeral d.f as the fraction num/den
Decimal(t) ==
    LET dot == PrefixLen(t, Digits)
    IN [num |-> int(SelectSeq(t, IsDigit)),
        den |-> IF dot = Len(t) THEN 1 ELSE Pow10(Len(t) - dot - 1)]

\* the style emitted for axis a, if any
StylesFor(markup, a) ==
    {markup.styles[i] : i \in {j \in 1..Len(markup.styles) : markup.styles[j].axis = a}}

\* C10: with scaling attributes present (and PIL there to apply them), each
\* declared dimension <number><unit> is emitted as the size of its axis,
\* with the value number*scale/100 and the declared unit, px when none.
C10_DeclaredDimensionScaled ==
    (pure.fn = "get_png_tag" /\ pure.tenv.pil) =>
        \A a \in {"width", "height"} :
            Has(pure.node, a) =>
                /\ pure.r.exc = NoExc
                /\ Len(pure.r.markup) = 1
                /\ \E st \in StylesFor(pure.r.markup[1], a) :
                      LET declared == Decimal(DeclaredNumberText(pure.node[a]))
                          emitted == Decimal(st.value)
                          scale == Get(pure.node, "scale", DefaultScale)
                          unit == DeclaredUnit(pure.node[a])
                      IN /\ emitted.num * declared.den * 100
                              = declared.num * scale * emitted.den
                         /\ st.unit = IF unit = <<>> THEN PX ELSE unit

\* C10, for dimensions declared as a whole number with or without a unit
C10_WholeNumbersScaled ==
    (/\ pure.fn = "get_png_tag" /\ pure.tenv.pil
     /\ \A b \in {"width", "height"} : Has(pure.node, b) => 46 \notin Range(pure.node[b])) =>
        \A a \in {"width", "height"} :
            Has(pure.node, a) =>
                /\ pure.r.exc = NoExc
                /\ \E st \in StylesFor(pure.r.markup[1], a) :
                      /\ Decimal(st.value).num * 100
                            = int(DeclaredNumberText(pure.node[a]))
                                * Get(pure.node, "scale", DefaultScale) * Decimal(st.value).den
                      /\ st.unit = IF DeclaredUnit(pure.node[a]) = <<>> THEN PX
                                   ELSE DeclaredUnit(pure.node[a])

\* scale=20% with width=50mm emits a width of 10.0mm
C10_Example ==
    /\ pure.fn = "get_png_tag"
    /\ Get(pure.node, "scale", DefaultScale) = 20
    /\ Get(pure.node, "width", <<>>) = <<53, 48, 109, 109>>
    /\ ~Has(pure.node, "height")
    /\ pure.r.markup[1].styles
          = <<[axis |-> "width", value |-> <<49, 48, 46, 48>>, unit |-> <<109, 109>>]>>

-----------------------------------------------------------------------------
\* C11: the style extracted from a rendered vector file is exactly the value
\* of the style attribute of the first opening svg tag of the file, nothing
\* when the file has no such tag or the tag no such attribute, and the
\* embedder then emits an empty style and no error.
C11_StyleOfFirstSvgTag ==
    pure.fn = "get_svg_style" =>
        /\ pure.style = pure.declared
        /\ pure.tag.exc = NoExc
        /\ pure.tag.markup[1].style = pure.declared

\* a tag written on one line, with attributes, whose style holds no quote
\* and follows no attribute whose name ends in -style
PlainSvgTag(d, lay) ==
    LET svgs == {i \in 1..Len(d) : d[i].name = SvgName}
        attrs == d[Least(svgs)].attrs
    IN svgs # {} =>
          /\ lay.sep = <<32>>
          /\ attrs # <<>>
          /\ \A k \in 1..Len(attrs) :
                /\ attrs[k].name # StyleName => SubSeq(attrs[k].name, Len(attrs[k].name)
                                                       - Len(StyleName) + 1,
                                                       Len(attrs[k].name)) # StyleName
                /\ attrs[k].name = StyleName => Range(attrs[k].value) \cap Quotes = {}

\* for such files the style extracted is the declared one
C11_PlainTagStyle ==
    (/\ pure.fn = "get_svg_style"
     /\ pure.doc # <<>> => PlainSvgTag(pure.doc[1], pure.lay[1]))
        => /\ pure.style = pure.declared
           /\ pure.tag.exc = NoExc
           /\ pure.tag.markup[1].style = pure.declared

\* the file of test_get_svg_style gives the style the test expects
C11_Example ==
    /\ pure.fn = "get_svg_style"
    /\ pure.text = TestSvgText
    /\ pure.style = TestSvgStyle
    /\ pure.tag.markup[1].style = TestSvgStyle

-----------------------------------------------------------------------------
Tries(ftp) == IF ftp = NoHandle THEN 0 ELSE ftp[1].connection_try

\* C12: a transport handle makes at most connection_try_max connection
\* attempts, all of them in the call that creates it, one more after each
\* refusal until it is accepted or the bound is reached; at the bound
\* connect returns with the handle not connected (the call goes on to the
\* exchange, whose error it raises), and a call that finds a handle makes no
\* attempt.
C12_ConnectBounded ==
    /\ Tries(PLANTUML_FTP_SERVER) <= connection_try_max
    /\ \A c \in Calls :
          /\ c.ftp_before # NoHandle => c.ftp_after = c.ftp_before
          /\ "refusals" \in c.consumed =>
                /\ c.ftp_before = NoHandle
                /\ Tries(c.ftp_after) = IF c.env.refusals < connection_try_max
                                        THEN c.env.refusals + 1
                                        ELSE connection_try_max
                /\ c.ftp_after[1].is_connected <=> c.env.refusals < connection_try_max
                /\ c.env.refusals >= connection_try_max
                      => c.exc = OtherError("AttributeError")

\* a call finds the handle that gave up at the bound, and makes no attempt
C12_Witness ==
    \E c \in Calls :
        /\ c.ftp_before # NoHandle
        /\ ~c.ftp_before[1].is_connected
        /\ Tries(c.ftp_before) = connection_try_max
        /\ c.ftp_after = c.ftp_before
        /\ ~c.existed

-----------------------------------------------------------------------------
Spawned(ftp) == ftp # NoHandle /\ ftp[1].server_process = "running"

TornDown == <<"terminate", "sleep", "clear">>

\* C13: when a build of the alternate transport completes with a companion
\* process spawned, the process is terminated, the grace delay observed and
\* then the handle cleared, in this order; the next build starts without a
\* handle, and a render call that finds no handle creates one and spawns a
\* companion for it, so that no call uses a terminated one.
C13_TeardownThenFreshCompanion ==
    [][/\ (/\ phase # "finished" /\ phase' = "finished"
           /\ config.plantuml_use_ftp_mode
           /\ Spawned(PLANTUML_FTP_SERVER))
          => /\ last'.steps = TornDown
             /\ last'.exc = NoExc
             /\ PLANTUML_FTP_SERVER' = NoHandle
       /\ (phase = "finished" /\ phase' = "building" /\ last.steps = TornDown)
          => PLANTUML_FTP_SERVER' = NoHandle
       /\ (visits' = visits + 1 /\ config.plantuml_use_ftp_mode)
          => \A c \in Calls' :
                /\ c.ftp_before # NoHandle
                      => c.ftp_before[1].server_process # "terminated"
                /\ (c.ftp_before = NoHandle /\ c.ftp_used
                        /\ config.plantuml_spawn_ftp_server)
                      => /\ "spawn" \in c.consumed
                         /\ c.popens = 1
                         /\ c.env.spawn = "ok" => Spawned(c.ftp_after)
      ]_vars

\* the second build of a process has spawned a companion, and its teardown
\* has terminated it and cleared the handle
C13_Witness ==
    /\ builds > 1
    /\ config.plantuml_spawn_ftp_server
    /\ phase = "finished"
    /\ last.steps = TornDown
    /\ PLANTUML_FTP_SERVER = NoHandle

-----------------------------------------------------------------------------
\* C14: after the build-finished handler of a build of the alternate
\* transport has run, the transport handle is empty and the handler has
\* raised nothing, whatever the configuration and the build did.
C14_HandleEmptyAfterTeardown ==
    (phase = "finished" /\ config.plantuml_use_ftp_mode)
        => /\ PLANTUML_FTP_SERVER = NoHandle
           /\ last.exc = NoExc

-----------------------------------------------------------------------------
\* a render call that reached PlantumlFtp.generate
Generated(c) == c.ftp_used /\ c.exc.type # "FileNotFoundError"

Exchange(c) == <<STOR(c.outfname.name), RETR(c.outfname.name), DELE>>

\* C15: each render call over the alternate transport sends, in this order,
\* the store of the source under the artifact's name, the retrieve of the
\* rendered file and the delete of the remote files, and after it the
\* server holds no file.
C15_StoreRetrieveDeleteNoLeftover ==
    \A c \in Calls :
        Generated(c) => /\ c.cmds = Exchange(c)
                        /\ c.remote_after = {}

\* a render call of the alternate transport that returns has sent the three
\* commands in order and left nothing on the server
C15_ReturnedCallLeavesNothing ==
    \A c \in Calls :
        (Generated(c) /\ c.exc = NoExc)
            => /\ c.cmds = Exchange(c)
               /\ c.remote_after = {}

\* the retrieve is refused: no delete is sent and the upload stays
C15_LeftOver ==
    /\ remote # {}
    /\ \E c \in Calls : Generated(c) /\ c.cmds = <<STOR(c.outfname.name), RETR(c.outfname.name)>>

-----------------------------------------------------------------------------
Convs == {last.conv[i] : i \in 1..Len(last.conv)}

EpstopdfCannotBeRun == PlantUmlError(EpstopdfCannotBeRunMsg(config.plantuml_epstopdf))

\* C16: the conversion tool is first executed directly; when that launch
\* fails it is retried once through a shell with the same arguments; the
\* 'epstopdf command cannot be run' error comes only after the retry has
\* failed to launch too.
C16_RetryOnAnyLaunchFailure ==
    \A c \in Convs :
        /\ c.launches[1] = "direct"
        /\ c.met[1] # "ok" => /\ c.launches = <<"direct", "bash">>
                              /\ c.argv[2] = <<"bash">> \o c.argv[1]
        /\ c.exc = EpstopdfCannotBeRun => /\ Len(c.launches) = 2
                                          /\ c.met[2] # "ok"

\* C16 as the code has it: the tool is first executed directly; it is
\* retried, once, through bash with the same arguments exactly when the
\* direct launch fails with ENOEXEC; 'epstopdf command cannot be run' is
\* raised exactly when the last launch made fails with ENOENT, be it the
\* direct one or the retry; any other launch error is raised as it is.
C16_RetryOnlyOnENOEXEC ==
    \A c \in Convs :
        /\ c.launches[1] = "direct"
        /\ c.launches = <<"direct", "bash">> <=> c.met[1] = "ENOEXEC"
        /\ c.launches # <<"direct", "bash">> => c.launches = <<"direct">>
        /\ Len(c.launches) = 2 => c.argv[2] = <<"bash">> \o c.argv[1]
        /\ c.exc = EpstopdfCannotBeRun <=> c.met[Len(c.met)] = "ENOENT"
        /\ c.met[Len(c.met)] \notin {"ok", "ENOENT"} => c.exc = OtherError("OSError")

\* a tool without interpreter line is retried through bash, which is
\* missing
C16_Witness ==
    \E c \in Convs :
        /\ c.met = <<"ENOEXEC", "ENOENT">>
        /\ c.launches = <<"direct", "bash">>
        /\ c.exc = EpstopdfCannotBeRun

-----------------------------------------------------------------------------
\* the file at p is as it was, the build going on
Kept(p) == builds' = builds => (p \in DOMAIN files' /\ files'[p] = files[p])

\* C17: once a rendered artifact (png, svg, eps or converted pdf) is in the
\* output directory, no later visit of the build opens it for writing or
\* regenerates it, the converted pdf of a diagram visited again included.
C17_ArtifactNeverRewritten ==
    [][\A p \in DOMAIN files : files[p].data = "rendered" => Kept(p)]_vars

\* what render_plantuml wrote is never written again
C17_RenderedNeverRewritten ==
    [][\A p \in DOMAIN files : p.name.ext # "pdf" => Kept(p)]_vars

\* the second visit of a diagram converts its eps again, over the pdf
C17_PdfRewritten ==
    \E p \in last.rewritten :
        /\ p.name.ext = "pdf"
        /\ files[p].writes = 2
        /\ \E c \in Calls : c.existed /\ ToPdf(c.outfname) = p

-----------------------------------------------------------------------------
Shortcut(c) == c.existed /\ c.exc = NoExc

\* C18: with plantuml_syntax_error_image unset, a file returned through the
\* existing-file shortcut holds a complete rendering, and a render call
\* that ends in an error leaves no file at the derived path.
C18_FailedCallLeavesNoFile ==
    ~config.plantuml_syntax_error_image
        => \A c \in Calls :
              /\ Shortcut(c) => c.after[1].data = "rendered"
              /\ (~c.existed /\ c.exc # NoExc) => c.after = <<>>

\* a block whose rendering failed is met again: the file the failed call
\* left is returned and embedded without a renderer run or a warning
C18_FailedFileEmbedded ==
    /\ ~config.plantuml_syntax_error_image
    /\ last.outcome = "embedded"
    /\ last.warnings = <<>>
    /\ \E c \in Calls : Shortcut(c) /\ c.after[1].data \in {"empty", "partial"}

-----------------------------------------------------------------------------
\* C19: PlantumlFtp.generate is only called on a handle whose connection
\* was established: no render call of a build attempts the exchange on a
\* handle whose connect gave up.
C19_GenerateOnlyWhenConnected ==
    \A c \in Calls : Generated(c) => c.ftp_after[1].is_connected

\* connect has given up at its bound and generate is called all the same:
\* ftplib fails on the socket it does not have
C19_GenerateUnconnected ==
    \E c \in Calls :
        /\ Generated(c)
        /\ ~c.ftp_after[1].is_connected
        /\ Tries(c.ftp_after) = connection_try_max
        /\ c.exc = OtherError("AttributeError")
        /\ c.cmds = <<>>

====
